---- MODULE Spec2Model ----
(***************************************************************************)
(* The query bridge of examples/gluesql.rs: many session tasks submit      *)
(* (oneshot sender, query text) pairs through one bounded mpsc channel of  *)
(* capacity 1 to a single worker task that owns the Glue engine.           *)
(*                                                                         *)
(* Every step of a task is one poll of its future: the code between two    *)
(* await points runs as one action.                                        *)
(***************************************************************************)
EXTENDS Integers, Sequences, FiniteSets, TLC

\* ------------------------------------------------------------ bounds
NumSessions == 3
MaxReq == 3
MaxPayloads == 3
MaxRows == 2
MaxCols == 2

\* ------------------------------------------------------------ constants
\* a request channel with room for two messages
CapacityTwo == 1 + 1

\* sync::mpsc::channel(1)
Capacity == 1

Sessions == 1..NumSessions
ReqIds == 1..MaxReq
Chans == 0..MaxReq
Texts == {"good", "bad"}
\* texts whose result holds a value or payload the encoder has no arm for
ExoticTexts == {"exotic"}

NoMsg == [tx |-> 0, sql |-> "", id |-> 0]
NoVal == [st |-> "none", sql |-> "", n |-> 0]
NoOutcome == [kind |-> "none", src |-> "none", val |-> NoVal]

VARIABLES
    spc,        \* session task position: absent | idle | sending | granted | awaiting | closed
    sreq,       \* the request a session's do_query is working on (0: none)
    created,    \* every request made so far, by id: [owner, sql, tx]
    permits,    \* free permits of the request channel's semaphore
    waiters,    \* sessions suspended in send, oldest first
    queue,      \* messages in the request channel
    closed,     \* the request channel's receiver is gone
    wpc,        \* worker task position: recv | exec | dead | exited
    cur,        \* the message the worker holds
    ost,        \* oneshot channel state: unused | open | sent | txgone | rxgone | done
    oval,       \* the value stored in a oneshot channel
    engineBusy, \* requests inside glue.execute
    accepted,   \* ids in the order they entered the request channel
    started,    \* ids in the order glue.execute was called
    finished,   \* ids in the order glue.execute returned
    posted,     \* how often a result was stored in the request's oneshot channel, by id
    discarded,  \* ids whose result the worker could not deliver
    returned,   \* how often do_query returned to its session, by id
    outcome,    \* what do_query returned, by id
    dropped,    \* ids whose session went away inside do_query
    waited,     \* ids whose send had to suspend
    panicked,   \* ids whose do_query panicked while encoding
    listener,   \* the accept loop: running | failed
    encIn,      \* an engine result handed to the encoding part of do_query
    encOut      \* what the encoding part of do_query made of encIn

vars == <<spc, sreq, created, permits, waiters, queue, closed, wpc, cur, ost, oval,
          engineBusy, accepted, started, finished, posted, discarded, returned,
          outcome, dropped, waited, panicked, listener, encIn, encOut>>

chanVars == <<permits, waiters, queue, closed>>
workerVars == <<wpc, cur, engineBusy, started, finished, posted, discarded>>
encVars == <<encIn, encOut>>

\* ------------------------------------------------------------ helpers
Range(f) == {f[i] : i \in DOMAIN f}

Count(seq, x) == Cardinality({i \in DOMAIN seq : seq[i] = x})

RECURSIVE Without(_, _)
Without(seq, x) ==
    IF seq = <<>> THEN <<>>
    ELSE IF Head(seq) = x THEN Without(Tail(seq), x)
    ELSE <<Head(seq)>> \o Without(Tail(seq), x)

QueueIds(q) == [i \in DOMAIN q |-> q[i].id]

\* a single response channel that every request uses
SharedChan(id) == 0

\* let (tx, rx) = sync::oneshot::channel(): a channel of its own for each request
NewChan(id) == id

\* a receive that does not wait for the sender
RxReadyAlways(c) == TRUE

\* rx.await resolves once a value was sent or the sender was destroyed
RxReady(c) == ost[c] \in {"sent", "txgone"}

MsgOf(id) == [tx |-> created[id].tx, sql |-> created[id].sql, id |-> id]

\* glue.execute(sql): the engine accepts well-formed text and rejects the rest;
\* n numbers the engine's executions
Execute(sql, n) == [st |-> IF sql = "bad" THEN "Err" ELSE "Ok", sql |-> sql, n |-> n]

\* a semaphore that serves the newest waiter first
GrantToNewest(w) == IF w # <<>> THEN w[Len(w)] ELSE 0

\* a semaphore that returns the permit to the counter and wakes nobody
GrantToNobody(w) == 0

\* the session the semaphore hands a released permit to (0: nobody waits)
GrantTo(w) == IF w # <<>> THEN Head(w) ELSE 0

\* a recv that leaves the value in the channel
QueueAfterRecvPeek(q) == q

\* what the request channel holds after recv took its value
QueueAfterRecv(q) == Tail(q)

\* a worker that takes the next message while the engine still runs
WorkerReadyAlways == wpc # "dead"

\* a worker that polls recv again before tx.send has run
WorkerReadyEarly == wpc \in {"recv", "exec"}

\* while let Some(..) = gluerx.recv().await: the worker polls recv only from
\* the top of its loop
WorkerReady == wpc = "recv"

\* a worker that leaves its loop when the engine reports an error
AfterSendStopOnErr(res, delivered) == IF res.st = "Err" THEN "dead" ELSE "recv"

\* a worker that unwraps the result of tx.send
AfterSendUnwrap(res, delivered) == IF delivered THEN "recv" ELSE "dead"

\* where the worker goes after tx.send(result).ok(): back to recv, whatever
\* the engine said and whether or not the result could be delivered
AfterSend(res, delivered) == "recv"

\* a receiver whose drop leaves the queued messages alive
DrainedTxNone(q) == {}

\* the oneshot senders the receiver's drop destroys: those of the messages
\* still in the channel
DrainedTx(q) == {q[i].tx : i \in DOMAIN q}

\* do_query returns err: PgWireError::ApiError
ApiError(src, val) == [kind |-> "ApiError", src |-> src, val |-> val]
OkOutcome(val) == [kind |-> "Ok", src |-> "engine", val |-> val]

\* an accept loop that survives a failed accept
ProcessAliveAlways == TRUE

\* listener.accept().await.unwrap() in main: the process lives as long as no
\* accept has failed
ProcessAlive == listener = "running"

\* a panic while encoding that takes the worker down with it
WorkerAfterSessionPanicDies(w) == "dead"

\* do_query, and so the encoding, runs in the session's own task
\* (tokio::spawn(process_socket(..))): its panic leaves the worker where it is
WorkerAfterSessionPanic(w) == w

\* no handle kept by main
MainHandlesNone == 1 - 1

\* let processor = Arc::new(..): the handle to the sender that main keeps for
\* the whole accept loop
MainHandles == 1

\* the handles to the request channel's only sender: main's and one clone per
\* live session (processor.clone())
SenderHandles ==
    MainHandles + Cardinality({s \in Sessions : spc[s] \notin {"absent", "closed"}})

\* Semaphore::add_permits: a released permit goes to the oldest waiter, and
\* to the counter when nobody waits
Release(w, p, pcs) ==
    LET g == GrantTo(w) IN
    IF g # 0
      THEN [w |-> Without(w, g), p |-> p, pcs |-> [pcs EXCEPT ![g] = "granted"]]
      ELSE [w |-> w, p |-> p + 1, pcs |-> pcs]

\* ------------------------------------------------------------ encoder
\* Values are integers: a Bool is 0 or 1, and a value of a kind such as Str
\* or Date is the number of a sample of that kind.
NoCell == [ty |-> "none", fmt |-> "none", text |-> <<>>]
NoResp == [rk |-> "none", tag |-> "", count |-> <<>>, fields |-> <<>>, data |-> <<>>]

DigitChars == <<"0", "1", "2", "3", "4", "5", "6", "7", "8", "9">>

RECURSIVE Digits(_)
Digits(n) ==
    IF n < 10 THEN <<DigitChars[n + 1]>>
    ELSE Digits(n \div 10) \o <<DigitChars[(n % 10) + 1]>>

\* the decimal text of an integer
IntToText(n) == IF n < 0 THEN <<"-">> \o Digits(0 - n) ELSE Digits(n)

DigitValue(ch) == (CHOOSE d \in 1..10 : DigitChars[d] = ch) - 1

RECURSIVE DigitsValue(_)
DigitsValue(txt) ==
    IF txt = <<>> THEN 0
    ELSE 10 * DigitsValue(SubSeq(txt, 1, Len(txt) - 1)) + DigitValue(txt[Len(txt)])

\* what a client reads from the decimal text of an integer
TextToInt(txt) ==
    IF Head(txt) = "-" THEN 0 - DigitsValue(Tail(txt)) ELSE DigitsValue(txt)

IntTypes == {"CHAR", "INT2", "INT4", "INT8"}

\* a match that sends the unsigned byte to the 16-bit type
WireTypeU8Wide(kind) ==
    CASE kind = "Bool" -> "BOOL"
      [] kind = "I8" -> "CHAR"
      [] kind = "I16" -> "INT2"
      [] kind = "I32" -> "INT4"
      [] kind = "I64" -> "INT8"
      [] kind = "U8" -> "INT2"
      [] kind = "F64" -> "FLOAT8"
      [] kind = "Str" -> "VARCHAR"
      [] kind = "Bytea" -> "BYTEA"
      [] kind = "Date" -> "DATE"
      [] kind = "Time" -> "TIME"
      [] kind = "Timestamp" -> "TIMESTAMP"
      [] OTHER -> "none"

\* match field { Value::Bool(v) => .. &Type::BOOL .. }: the wire type of each
\* value kind; "none" is the fallthrough arm
WireType(kind) ==
    CASE kind = "Bool" -> "BOOL"
      [] kind = "I8" -> "CHAR"
      [] kind = "I16" -> "INT2"
      [] kind = "I32" -> "INT4"
      [] kind = "I64" -> "INT8"
      [] kind = "U8" -> "CHAR"
      [] kind = "F64" -> "FLOAT8"
      [] kind = "Str" -> "VARCHAR"
      [] kind = "Bytea" -> "BYTEA"
      [] kind = "Date" -> "DATE"
      [] kind = "Time" -> "TIME"
      [] kind = "Timestamp" -> "TIMESTAMP"
      [] OTHER -> "none"

\* *v as i8: the unsigned byte read as a signed one
AsI8(v) == ((v + 128) % 256) - 128

\* the value handed to the wire encoder
WireValue(c) == IF c.kind = "U8" THEN AsI8(c.v) ELSE c.v

\* the text format of a value: decimal for the integer types, t or f for a
\* boolean, and the type's own text for the rest
ToSqlText(ty, v) ==
    IF ty \in IntTypes THEN IntToText(v)
    ELSE IF ty = "BOOL" THEN (IF v = 1 THEN <<"t">> ELSE <<"f">>)
    ELSE <<ty>> \o IntToText(v)

\* what a client decodes from a cell, by the cell's wire type
FromSqlText(cell) ==
    IF cell.ty \in IntTypes THEN TextToInt(cell.text)
    ELSE IF cell.ty = "BOOL" THEN (IF cell.text = <<"t">> THEN 1 ELSE 0)
    ELSE TextToInt(Tail(cell.text))

\* a fallthrough arm that returns an error
OnUnsupportedErr == "err"

\* _ => unimplemented!(): the fallthrough arm panics
OnUnsupported == "panic"

\* one arm of the match on the value kind: the encoder is handed the value
\* with the kind's wire type in text format, and its error is passed on by ?
EncodeCell(c) ==
    IF WireType(c.kind) = "none" THEN [st |-> OnUnsupported, cell |-> NoCell]
    ELSE IF c.fail THEN [st |-> "err", cell |-> NoCell]
    ELSE [st |-> "ok",
          cell |-> [ty |-> WireType(c.kind), fmt |-> "Text",
                    text |-> ToSqlText(WireType(c.kind), WireValue(c))]]

\* for field in row.iter() { .. }: the cells of a row, left to right, up to
\* the first that is not encoded
RECURSIVE EncodeRow(_, _, _)
EncodeRow(row, i, acc) ==
    IF i > Len(row) THEN [st |-> "ok", cells |-> acc]
    ELSE LET e == EncodeCell(row[i]) IN
         IF e.st # "ok" THEN [st |-> e.st, cells |-> <<>>]
         ELSE EncodeRow(row, i + 1, Append(acc, e.cell))

\* for row in rows { .. results.push(encoder.finish()) }
RECURSIVE EncodeRows(_, _, _)
EncodeRows(rows, i, acc) ==
    IF i > Len(rows) THEN [st |-> "ok", data |-> acc]
    ELSE LET e == EncodeRow(rows[i], 1, <<>>) IN
         IF e.st # "ok" THEN [st |-> e.st, data |-> <<>>]
         ELSE EncodeRows(rows, i + 1, Append(acc, e.cells))

\* descriptors that leave out the last label
FieldsOfOneShort(labels) ==
    [i \in 1..(Len(labels) - 1) |-> [name |-> labels[i], ty |-> "UNKNOWN", fmt |-> "Text"]]

\* labels.iter().map(|label| FieldInfo::new(label.into(), None, None,
\* Type::UNKNOWN, FieldFormat::Text)).collect()
FieldsOf(labels) ==
    [i \in DOMAIN labels |-> [name |-> labels[i], ty |-> "UNKNOWN", fmt |-> "Text"]]

MutationKinds == {"Insert", "Delete", "Update"}
SchemaKinds == {"Create", "AlterTable", "DropTable", "CreateIndex", "DropIndex"}

\* tags with those of Delete and Update exchanged
TagOfSwapped(pk) ==
    CASE pk = "Insert" -> "Insert"
      [] pk = "Delete" -> "Update"
      [] pk = "Update" -> "Delete"
      [] pk = "Create" -> "Create"
      [] pk = "AlterTable" -> "Alter Table"
      [] pk = "DropTable" -> "Drop Table"
      [] pk = "CreateIndex" -> "Create Index"
      [] pk = "DropIndex" -> "Drop Index"
      [] OTHER -> ""

\* the literal of each Tag::new_for_execution
TagOf(pk) ==
    CASE pk = "Insert" -> "Insert"
      [] pk = "Delete" -> "Delete"
      [] pk = "Update" -> "Update"
      [] pk = "Create" -> "Create"
      [] pk = "AlterTable" -> "Alter Table"
      [] pk = "DropTable" -> "Drop Table"
      [] pk = "CreateIndex" -> "Create Index"
      [] pk = "DropIndex" -> "Drop Index"
      [] OTHER -> ""

\* match payload { .. }: one payload to one response
EncodePayload(p) ==
    IF p.pk = "Select"
      THEN LET r == EncodeRows(p.rows, 1, <<>>) IN
           IF r.st # "ok" THEN [st |-> r.st, resp |-> NoResp]
           ELSE [st |-> "ok",
                 resp |-> [rk |-> "Query", tag |-> "", count |-> <<>>,
                           fields |-> FieldsOf(p.labels), data |-> r.data]]
    ELSE IF p.pk \in MutationKinds
      THEN [st |-> "ok",
            resp |-> [rk |-> "Execution", tag |-> TagOf(p.pk), count |-> <<p.n>>,
                      fields |-> <<>>, data |-> <<>>]]
    ELSE IF p.pk \in SchemaKinds
      THEN [st |-> "ok",
            resp |-> [rk |-> "Execution", tag |-> TagOf(p.pk), count |-> <<>>,
                      fields |-> <<>>, data |-> <<>>]]
    ELSE [st |-> OnUnsupported, resp |-> NoResp]

\* a collect that keeps the responses of the payloads that could be encoded
RECURSIVE CollectSkipErrors(_, _, _)
CollectSkipErrors(ps, i, acc) ==
    IF i > Len(ps) THEN [st |-> "ok", resps |-> acc]
    ELSE LET e == EncodePayload(ps[i]) IN
         IF e.st = "panic" THEN [st |-> "panic", resps |-> <<>>]
         ELSE IF e.st = "err" THEN CollectSkipErrors(ps, i + 1, acc)
         ELSE CollectSkipErrors(ps, i + 1, Append(acc, e.resp))

\* payloads.into_iter().map(..).collect::<Result<Vec<Response>, PgWireError>>():
\* the payloads in order, up to the first that is not encoded
RECURSIVE Collect(_, _, _)
Collect(ps, i, acc) ==
    IF i > Len(ps) THEN [st |-> "ok", resps |-> acc]
    ELSE LET e == EncodePayload(ps[i]) IN
         IF e.st # "ok" THEN [st |-> e.st, resps |-> <<>>]
         ELSE Collect(ps, i + 1, Append(acc, e.resp))

\* payloads.map_err(..).and_then(..): what do_query makes of the engine's
\* result
DoQueryEncode(res) ==
    IF res.st # "Ok" THEN [st |-> "err", resps |-> <<>>]
    ELSE Collect(res.payloads, 1, <<>>)

NoResult == [st |-> "none", payloads |-> <<>>]
NoEncoded == [st |-> "none", resps |-> <<>>]

NoPayload == [pk |-> "none", n |-> 0, labels |-> <<>>, rows |-> <<>>]
Cell(kind, v) == [kind |-> kind, v |-> v, fail |-> FALSE]
FailingCell(kind, v) == [kind |-> kind, v |-> v, fail |-> TRUE]
Mutation(pk, n) == [NoPayload EXCEPT !.pk = pk, !.n = n]
Schema(pk) == [NoPayload EXCEPT !.pk = pk]
Select(labels, rows) == [NoPayload EXCEPT !.pk = "Select", !.labels = labels, !.rows = rows]

\* the payloads the engine answers the sample texts with: a well-formed
\* statement inserts one row, an exotic one selects a value of a kind the
\* encoder has no arm for
PayloadsOf(sql) ==
    IF sql = "good" THEN <<Mutation("Insert", 1)>>
    ELSE IF sql = "exotic" THEN <<Select(<<"a">>, <<<<Cell("Null", 0)>>>>)>>
    ELSE <<>>

\* the Result<Vec<Payload>> that came through the oneshot channel
EngineResult(v) == [st |-> v.st, payloads |-> PayloadsOf(v.sql)]

\* ------------------------------------------------------------ initial state
BridgeInit ==
    /\ spc = [s \in Sessions |-> "absent"]
    /\ sreq = [s \in Sessions |-> 0]
    /\ created = <<>>
    /\ permits = Capacity
    /\ waiters = <<>>
    /\ queue = <<>>
    /\ closed = FALSE
    /\ wpc = "recv"
    /\ cur = NoMsg
    /\ ost = [c \in Chans |-> "unused"]
    /\ oval = [c \in Chans |-> NoVal]
    /\ engineBusy = {}
    /\ accepted = <<>>
    /\ started = <<>>
    /\ finished = <<>>
    /\ posted = [r \in ReqIds |-> 0]
    /\ discarded = {}
    /\ returned = [r \in ReqIds |-> 0]
    /\ outcome = [r \in ReqIds |-> NoOutcome]
    /\ dropped = {}
    /\ waited = {}
    /\ panicked = {}
    /\ listener = "running"
    /\ encOut = NoEncoded

Init == BridgeInit /\ encIn = NoResult

\* ------------------------------------------------------------ acceptor
\* listener.accept() and tokio::spawn(process_socket(..)): a new session;
\* sessions are numbered in the order they are accepted
Accept(s) ==
    /\ ProcessAlive
    /\ spc[s] = "absent"
    /\ \A t \in Sessions : t < s => spc[t] # "absent"
    /\ spc' = [spc EXCEPT ![s] = "idle"]
    /\ UNCHANGED <<sreq, created, chanVars, workerVars, ost, oval, accepted,
                   returned, outcome, dropped, waited, panicked, listener, encVars>>

\* ------------------------------------------------------------ session
\* do_query up to its first suspension: make the oneshot channel, then the
\* first poll of self.tx.send(..)
StartQuery(s, sql) ==
    /\ ProcessAlive
    /\ spc[s] = "idle"
    /\ Len(created) < MaxReq
    /\ LET id == Len(created) + 1
           c == NewChan(id)
           msg == [tx |-> c, sql |-> sql, id |-> id]
       IN /\ created' = Append(created, [owner |-> s, sql |-> sql, tx |-> c])
          /\ IF closed
               THEN \* send fails: the error comes back at once
                    /\ outcome' = [outcome EXCEPT ![id] = ApiError("send", NoVal)]
                    /\ returned' = [returned EXCEPT ![id] = @ + 1]
                    /\ ost' = [ost EXCEPT ![c] = "done"]
                    /\ UNCHANGED <<spc, sreq, chanVars, accepted, waited>>
               ELSE IF permits > 0
               THEN \* a permit is free: the message enters the channel
                    /\ permits' = permits - 1
                    /\ queue' = Append(queue, msg)
                    /\ accepted' = Append(accepted, id)
                    /\ spc' = [spc EXCEPT ![s] = "awaiting"]
                    /\ sreq' = [sreq EXCEPT ![s] = id]
                    /\ ost' = [ost EXCEPT ![c] = "open"]
                    /\ UNCHANGED <<waiters, closed, returned, outcome, waited>>
               ELSE \* no permit: suspend in send, behind the earlier waiters
                    /\ waiters' = Append(waiters, s)
                    /\ waited' = waited \cup {id}
                    /\ spc' = [spc EXCEPT ![s] = "sending"]
                    /\ sreq' = [sreq EXCEPT ![s] = id]
                    /\ ost' = [ost EXCEPT ![c] = "open"]
                    /\ UNCHANGED <<permits, queue, closed, accepted, returned, outcome>>
    /\ UNCHANGED <<workerVars, oval, dropped, panicked, listener, encVars>>

\* a session suspended in send is polled again: after it was handed a permit,
\* or after the channel closed
SendResume(s) ==
    /\ ProcessAlive
    /\ spc[s] \in {"sending", "granted"}
    /\ spc[s] = "granted" \/ closed
    /\ LET id == sreq[s] IN
       IF closed
         THEN /\ outcome' = [outcome EXCEPT ![id] = ApiError("send", NoVal)]
              /\ returned' = [returned EXCEPT ![id] = @ + 1]
              /\ ost' = [ost EXCEPT ![created[id].tx] = "done"]
              /\ spc' = [spc EXCEPT ![s] = "idle"]
              /\ sreq' = [sreq EXCEPT ![s] = 0]
              /\ UNCHANGED <<queue, accepted>>
         ELSE /\ queue' = Append(queue, MsgOf(id))
              /\ accepted' = Append(accepted, id)
              /\ spc' = [spc EXCEPT ![s] = "awaiting"]
              /\ UNCHANGED <<sreq, ost, returned, outcome>>
    /\ UNCHANGED <<created, permits, waiters, closed, workerVars, oval, dropped, waited,
                   panicked, listener, encVars>>

\* rx.await resolves, with the posted result or with RecvError when the
\* sender was destroyed unused, and the rest of do_query runs in the same
\* poll: errors become ApiError, a posted Ok result is encoded, and a panic
\* of the encoding ends the session's task
SessionRecv(s) ==
    /\ ProcessAlive
    /\ spc[s] = "awaiting"
    /\ LET id == sreq[s]
           c == created[id].tx
           enc == DoQueryEncode(EngineResult(oval[c]))
           panics == ost[c] # "txgone" /\ enc.st = "panic"
       IN /\ RxReady(c)
          /\ ost' = [ost EXCEPT ![c] = "done"]
          /\ oval' = [oval EXCEPT ![c] = NoVal]
          /\ IF panics
               THEN /\ panicked' = panicked \cup {id}
                    /\ dropped' = dropped \cup {id}
                    /\ spc' = [spc EXCEPT ![s] = "closed"]
                    /\ wpc' = WorkerAfterSessionPanic(wpc)
                    /\ UNCHANGED <<outcome, returned>>
               ELSE /\ outcome' = [outcome EXCEPT ![id] =
                           IF ost[c] = "txgone" THEN ApiError("recv", NoVal)
                           ELSE IF enc.st = "ok" THEN OkOutcome(oval[c])
                           ELSE IF oval[c].st = "Ok" THEN ApiError("encode", oval[c])
                           ELSE ApiError("engine", oval[c])]
                    /\ returned' = [returned EXCEPT ![id] = @ + 1]
                    /\ spc' = [spc EXCEPT ![s] = "idle"]
                    /\ UNCHANGED <<panicked, dropped, wpc>>
    /\ sreq' = [sreq EXCEPT ![s] = 0]
    /\ UNCHANGED <<created, chanVars, cur, engineBusy, started, finished, posted,
                   discarded, accepted, waited, listener, encVars>>

\* the session goes away: its task, and with it a do_query in progress, is
\* destroyed wherever it stands
Disconnect(s) ==
    /\ ProcessAlive
    /\ spc[s] \notin {"absent", "closed"}
    /\ LET id == sreq[s]
           rel == IF spc[s] = "granted"
                    THEN Release(waiters, permits, spc)
                    ELSE [w |-> Without(waiters, s), p |-> permits, pcs |-> spc]
       IN /\ waiters' = rel.w
          /\ permits' = rel.p
          /\ spc' = [rel.pcs EXCEPT ![s] = "closed"]
          /\ IF id = 0
               THEN UNCHANGED <<ost, oval, dropped>>
               ELSE /\ dropped' = dropped \cup {id}
                    /\ ost' = [ost EXCEPT ![created[id].tx] =
                           IF spc[s] = "awaiting" /\ @ = "open" THEN "rxgone" ELSE "done"]
                    /\ oval' = [oval EXCEPT ![created[id].tx] = NoVal]
    /\ sreq' = [sreq EXCEPT ![s] = 0]
    /\ UNCHANGED <<created, queue, closed, workerVars, accepted, returned, outcome, waited,
                   panicked, listener, encVars>>

\* ------------------------------------------------------------ worker
\* gluerx.recv().await resolves. With a message: the permit it held is
\* released and glue.execute(sql) is entered. With None, when the channel is
\* empty and no handle to its sender is left: the while let loop ends and the
\* worker task returns, destroying the receiver
WorkerRecv ==
    /\ ProcessAlive
    /\ WorkerReady
    /\ IF queue # <<>> THEN TRUE ELSE SenderHandles = 0
    /\ IF queue # <<>>
         THEN LET msg == Head(queue)
                  rel == Release(waiters, permits, spc)
              IN /\ queue' = QueueAfterRecv(queue)
                 /\ waiters' = rel.w
                 /\ permits' = rel.p
                 /\ spc' = rel.pcs
                 /\ cur' = msg
                 /\ started' = Append(started, msg.id)
                 /\ engineBusy' = engineBusy \cup {msg.id}
                 /\ wpc' = "exec"
                 /\ UNCHANGED closed
         ELSE /\ wpc' = "exited"
              /\ closed' = TRUE
              /\ UNCHANGED <<queue, waiters, permits, spc, cur, started, engineBusy>>
    /\ UNCHANGED <<sreq, created, ost, oval, accepted, finished, posted,
                   discarded, returned, outcome, dropped, waited, panicked, listener, encVars>>

\* glue.execute returns and tx.send(result).ok() stores the result in the
\* request's oneshot channel, or drops it when the receiver is gone
WorkerFinish ==
    /\ ProcessAlive
    /\ wpc = "exec"
    /\ LET res == Execute(cur.sql, Len(started))
           delivered == ost[cur.tx] = "open"
       IN /\ IF delivered
               THEN /\ ost' = [ost EXCEPT ![cur.tx] = "sent"]
                    /\ oval' = [oval EXCEPT ![cur.tx] = res]
                    /\ posted' = [posted EXCEPT ![cur.id] = @ + 1]
                    /\ UNCHANGED discarded
               ELSE /\ discarded' = discarded \cup {cur.id}
                    /\ UNCHANGED <<ost, oval, posted>>
          /\ wpc' = AfterSend(res, delivered)
    /\ finished' = Append(finished, cur.id)
    /\ engineBusy' = engineBusy \ {cur.id}
    /\ cur' = NoMsg
    /\ UNCHANGED <<spc, sreq, created, chanVars, started, accepted, returned,
                   outcome, dropped, waited, panicked, listener, encVars>>

\* glue.execute panics: the worker task unwinds, destroying the receiver
\* (the channel closes, its messages are destroyed, suspended senders are
\* woken) and the oneshot sender it held
WorkerCrash ==
    /\ ProcessAlive
    /\ wpc = "exec"
    /\ wpc' = "dead"
    /\ closed' = TRUE
    /\ queue' = <<>>
    /\ waiters' = <<>>
    /\ ost' = [c \in Chans |->
                 IF (c = cur.tx \/ c \in DrainedTx(queue)) /\ ost[c] = "open"
                   THEN "txgone" ELSE ost[c]]
    /\ engineBusy' = engineBusy \ {cur.id}
    /\ cur' = NoMsg
    /\ UNCHANGED <<spc, sreq, created, permits, oval, started, finished, posted,
                   discarded, accepted, returned, outcome, dropped, waited, panicked,
                   listener, encVars>>

\* ------------------------------------------------------------ specifications
SessionStep(s) ==
    \/ \E sql \in Texts : StartQuery(s, sql)
    \/ SendResume(s)
    \/ SessionRecv(s)

Next ==
    \/ \E s \in Sessions : Accept(s)
    \/ \E s \in Sessions : SessionStep(s)
    \/ \E s \in Sessions : Disconnect(s)
    \/ WorkerRecv
    \/ WorkerFinish
    \/ WorkerCrash

Spec == Init /\ [][Next]_vars

\* the tokio runtime polls every task that was woken: a session whose send or
\* rx.await can go on, and the worker when a message waits for it; block_on
\* returns when the engine does
Fairness ==
    /\ \A s \in Sessions : WF_vars(SendResume(s)) /\ WF_vars(SessionRecv(s))
    /\ WF_vars(WorkerRecv)
    /\ WF_vars(WorkerFinish)

\* every behaviour of the program under fair scheduling
FairSpec == Init /\ [][Next]_vars /\ Fairness

\* the behaviours in which every glue.execute returns
NextLive ==
    \/ \E s \in Sessions : Accept(s)
    \/ \E s \in Sessions : SessionStep(s)
    \/ \E s \in Sessions : Disconnect(s)
    \/ WorkerRecv
    \/ WorkerFinish

LiveSpec == Init /\ [][NextLive]_vars /\ Fairness

\* listener.accept().await.unwrap() panics in main: the process ends, and
\* with it every task
AcceptFail ==
    /\ ProcessAlive
    /\ listener = "running"
    /\ listener' = "failed"
    /\ UNCHANGED <<spc, sreq, created, chanVars, workerVars, ost, oval, accepted,
                   returned, outcome, dropped, waited, panicked, encVars>>

\* the whole server: any text, a failing accept included
NextServer ==
    \/ Next
    \/ \E s \in Sessions : \E sql \in ExoticTexts : StartQuery(s, sql)
    \/ AcceptFail

ServerSpec == Init /\ [][NextServer]_vars

\* the behaviours in which every glue.execute returns Ok, some of them with
\* a result the encoder has no arm for
NextEncoding ==
    \/ \E s \in Sessions : Accept(s)
    \/ \E s \in Sessions : \E sql \in {"good"} \cup ExoticTexts : StartQuery(s, sql)
    \/ \E s \in Sessions : SendResume(s)
    \/ \E s \in Sessions : SessionRecv(s)
    \/ \E s \in Sessions : Disconnect(s)
    \/ WorkerRecv
    \/ WorkerFinish

EncodingSpec == Init /\ [][NextEncoding]_vars /\ Fairness

\* ------------------------------------------------------------ encoding alone
SeqsUpTo(S, n) == UNION {[1..k -> S] : k \in 0..n}

ColumnName(i) == <<"c">> \o IntToText(i)
Labels(w) == [i \in 1..w |-> ColumnName(i)]

\* sample values of every kind the match has an arm for; the unsigned bytes
\* are all there
SupportedCells ==
    {Cell("Bool", v) : v \in {0, 1}}
    \cup {Cell("I8", v) : v \in {-128, -56, -1, 0, 127}}
    \cup {Cell("I16", v) : v \in {-32768, -1, 0, 32767}}
    \cup {Cell("I32", v) : v \in {-2147483647, 0, 2147483647}}
    \cup {Cell("I64", v) : v \in {-2147483647, 0, 2147483647}}
    \cup {Cell("U8", v) : v \in 0..255}
    \cup {Cell(k, v) : k \in {"F64", "Str", "Bytea", "Date", "Time", "Timestamp"},
                       v \in 0..2}

\* kinds of gluesql::prelude::Value the match has no arm for
UnsupportedValueKinds == {"I128", "Decimal", "Interval", "Uuid", "Map", "List", "Null"}
UnsupportedCells == {Cell(k, 0) : k \in UnsupportedValueKinds}

\* values the wire encoder fails on
FailingCells == {FailingCell(k, 1) : k \in {"I32", "Str", "U8"}}

\* variants of gluesql::prelude::Payload the match has no arm for
UnsupportedPayloadKinds ==
    {"ShowColumns", "ShowIndexes", "ShowVariable", "StartTransaction", "Commit", "Rollback"}

\* the cells of the selects with more than one row or column
SmallCells ==
    {Cell("I32", 7), Cell("U8", 200), Cell("Null", 0), FailingCell("Str", 1)}

OneCellSelects ==
    {Select(Labels(1), <<<<c>>>>) : c \in SupportedCells \cup UnsupportedCells \cup FailingCells}

\* cells that are encoded
PlainCells == {Cell("I32", 7), Cell("U8", 200)}

PlainRows(w) == [1..w -> PlainCells]
SmallRows(w) == [1..w -> SmallCells]

\* every row of a Select payload has one value per label: up to MaxRows rows
\* that are encoded, and one row of any cells alone or after such a row
WideSelects ==
    UNION {{Select(Labels(w), rows) :
               rows \in SeqsUpTo(PlainRows(w), MaxRows)
                        \cup {<<r>> : r \in SmallRows(w)}
                        \cup {<<q, r>> : q \in PlainRows(w), r \in SmallRows(w)}} :
           w \in 0..MaxCols}

Mutations == {Mutation(pk, n) : pk \in MutationKinds, n \in {0, 1, 5}}
Schemas == {Schema(pk) : pk \in SchemaKinds}
UnsupportedPayloads == {Schema(pk) : pk \in UnsupportedPayloadKinds}

SinglePayloads ==
    OneCellSelects \cup WideSelects \cup Mutations \cup Schemas \cup UnsupportedPayloads

\* the payloads of the results with more than one payload
SmallPayloads ==
    {Mutation("Insert", 5), Mutation("Delete", 0), Schema("Create"), Schema("Commit"),
     Select(Labels(1), <<<<Cell("I32", 7)>>>>),
     Select(Labels(1), <<<<Cell("Null", 0)>>>>),
     Select(Labels(1), <<<<FailingCell("I32", 1)>>>>)}

\* the results glue.execute can hand to do_query: an error, or up to
\* MaxPayloads payloads
EngineResults ==
    {[st |-> "Err", payloads |-> <<>>]}
    \cup {[st |-> "Ok", payloads |-> <<p>>] : p \in SinglePayloads}
    \cup {[st |-> "Ok", payloads |-> ps] : ps \in SeqsUpTo(SmallPayloads, MaxPayloads)}

EncInit == BridgeInit /\ encIn \in EngineResults

\* the part of do_query after rx.await, applied to an engine result
Encode ==
    /\ encIn # NoResult
    /\ encOut = NoEncoded
    /\ encOut' = DoQueryEncode(encIn)
    /\ UNCHANGED <<spc, sreq, created, chanVars, workerVars, ost, oval, accepted,
                   returned, outcome, dropped, waited, panicked, listener, encIn>>

EncSpec == EncInit /\ [][Encode]_vars

\* ------------------------------------------------------------ claims
IsPrefix(a, b) == Len(a) <= Len(b) /\ a = SubSeq(b, 1, Len(a))

Created == 1..Len(created)

\* C1: at most one request is inside the engine at any time: the engine holds
\* exactly the worker's current message while the worker executes and nothing
\* otherwise, and a new execution starts only after the previous one returned.
C1_AtMostOneInFlight ==
    /\ Cardinality(engineBusy) <= 1
    /\ engineBusy = IF wpc = "exec" THEN {cur.id} ELSE {}
    /\ Len(started) <= Len(finished) + 1
    /\ wpc = "recv" => Len(started) = Len(finished)

C1_Witness ==
    /\ wpc = "exec"
    /\ Cardinality(engineBusy) = 1
    /\ queue # <<>>
    /\ waiters # <<>>

\* C2: the engine executes requests in the order they entered the request
\* channel: the executions started are a prefix of the accepted requests, the
\* executions finished are a prefix of those started with at most the last one
\* outstanding, no request is executed twice, and while the worker lives the
\* accepted requests not yet started are exactly the channel's content.
C2_ExecOrderIsAcceptOrder ==
    /\ IsPrefix(started, accepted)
    /\ IsPrefix(finished, started)
    /\ Len(started) <= Len(finished) + 1
    /\ \A i, j \in DOMAIN started : started[i] = started[j] => i = j
    /\ wpc # "dead" => accepted = started \o QueueIds(queue)

C2_Witness ==
    /\ Len(finished) >= 2
    /\ created[finished[1]].owner # created[finished[2]].owner
    /\ finished[2] \in waited

\* C3: admission to the channel follows the order in which the sends began
\* (request ids are issued in that order): a request is admitted only when
\* every request whose send began earlier has been admitted before it or has
\* lost its session.
C3_AdmissionFifo ==
    \A i \in DOMAIN accepted :
        \A r \in 1..(accepted[i] - 1) :
            \/ \E j \in 1..(i - 1) : accepted[j] = r
            \/ r \in dropped

C3_Witness ==
    /\ accepted = <<1, 2, 3>>
    /\ {2, 3} \subseteq waited
    /\ started = <<1, 2>>
    /\ dropped = {}

C5_ResponseRouting ==
    \A r \in Created :
        (returned[r] = 1 /\ outcome[r].src = "engine") =>
            LET v == outcome[r].val IN
            /\ v.sql = created[r].sql
            /\ v.n \in DOMAIN started /\ started[v.n] = r
            /\ r \in Range(finished)
            /\ v = Execute(created[r].sql, v.n)
            /\ outcome[r].kind = (IF v.st = "Ok" THEN "Ok" ELSE "ApiError")

C5_Witness ==
    \E r, q \in Created :
        /\ created[r].owner # created[q].owner
        /\ created[r].sql = "good" /\ created[q].sql = "bad"
        /\ returned[r] = 1 /\ outcome[r].kind = "Ok"
        /\ returned[q] = 1 /\ outcome[q].src = "engine"
        /\ \E i, j \in DOMAIN accepted : i < j /\ accepted[i] = q /\ accepted[j] = r
        /\ r \in waited

\* C6: the request channel never holds more than one message; the request of
\* a session suspended in send is not in the channel; and such a request
\* enters the channel only when the channel is empty and the worker has taken
\* every request admitted before.
C6_SlotInv ==
    /\ Len(queue) <= 1
    /\ \A s \in Sessions :
          spc[s] \in {"sending", "granted"} =>
              /\ sreq[s] \notin Range(QueueIds(queue))
              /\ sreq[s] \notin Range(accepted)

C6_SlotStep ==
    \A s \in Sessions :
        (spc[s] \in {"sending", "granted"} /\ sreq[s] \in Range(QueueIds(queue')))
            => (queue = <<>> /\ accepted = started)

C6_SingleSlot == [](C6_SlotInv) /\ [][C6_SlotStep]_vars

C6_Witness ==
    /\ queue # <<>>
    /\ queue[1].id \in waited
    /\ waiters # <<>>
    /\ wpc = "exec"

\* C7: once the worker is dead it stays dead, the channel is closed and
\* empty and the engine runs nothing more; no request succeeds unless its
\* result had been posted; a session waiting for an unposted result finds its
\* sender destroyed; and every request without a posted result (it was being
\* executed, queued, suspended in send, or is made afterwards) ends with an
\* ApiError returned to its session, unless that session goes away.
C7_DeadInv ==
    /\ wpc = "dead" =>
          /\ closed /\ queue = <<>> /\ engineBusy = {} /\ waiters = <<>>
          /\ \A s \in Sessions :
                (spc[s] = "awaiting" /\ posted[sreq[s]] = 0)
                    => ost[created[sreq[s]].tx] = "txgone"
    /\ closed => wpc = "dead"
    /\ \A r \in Created :
          (returned[r] = 1 /\ outcome[r].kind = "Ok") => posted[r] = 1

C7_DeadStep ==
    wpc = "dead" => (wpc' = "dead" /\ closed' /\ started' = started /\ posted' = posted)

C7_Unposted(r) ==
    wpc = "dead" /\ r \in Created /\ posted[r] = 0 /\ returned[r] = 0 /\ r \notin dropped

C7_Failed(r) ==
    r \in dropped \/ (returned[r] = 1 /\ outcome[r].kind = "ApiError")

C7_WorkerTermination ==
    /\ [](C7_DeadInv)
    /\ [][C7_DeadStep]_vars
    /\ \A r \in ReqIds : C7_Unposted(r) ~> C7_Failed(r)

C7_Witness ==
    /\ wpc = "dead"
    /\ started = <<1>> /\ finished = <<>>
    /\ accepted = <<1, 2>>
    /\ 3 \in waited
    /\ \A r \in 1..3 : returned[r] = 1 /\ outcome[r].kind = "ApiError"
    /\ outcome[1].src = "recv" /\ outcome[2].src = "recv" /\ outcome[3].src = "send"

\* C8: when every execution returns, the worker never stops and the channel
\* never closes; every outcome is the engine's verdict on the request's text
\* (ApiError for text the engine rejects, Ok for text it accepts); a rejected
\* request gets its ApiError; and a well-formed request made after an engine
\* error was returned gets Ok, unless its session goes away.
C8_LiveInv ==
    /\ wpc # "dead" /\ ~closed
    /\ \A r \in Created :
          returned[r] = 1 =>
              /\ outcome[r].src = "engine"
              /\ outcome[r].kind = (IF created[r].sql = "good" THEN "Ok" ELSE "ApiError")

C8_ErrorSeen(q) ==
    q \in Created /\ returned[q] = 1 /\ outcome[q].kind = "ApiError"

C8_EngineErrorRecovery ==
    /\ [](C8_LiveInv)
    /\ \A r \in ReqIds :
          (r \in Created /\ created[r].sql = "bad")
              ~> (r \in dropped \/ C8_ErrorSeen(r))
    /\ \A r \in ReqIds :
          (r \in Created /\ created[r].sql = "good" /\ \E q \in 1..(r - 1) : C8_ErrorSeen(q))
              ~> (r \in dropped \/ (returned[r] = 1 /\ outcome[r].kind = "Ok"))

C8_Witness ==
    \E q, r \in Created :
        /\ q < r
        /\ created[q].owner = created[r].owner
        /\ C8_ErrorSeen(q) /\ outcome[q].src = "engine"
        /\ q \in Range(finished)
        /\ created[r].sql = "good"
        /\ returned[r] = 1 /\ outcome[r].kind = "Ok"

\* C9: a request whose session went away stays in the channel until the worker
\* takes it, is executed at most once, and, when it was not finished yet, is
\* executed to the end with its result discarded; the worker is back at recv
\* after discarding a result.
C9_DropInv ==
    \A r \in dropped :
        /\ Count(started, r) <= 1
        /\ r \in Range(accepted) => (r \in Range(QueueIds(queue)) \/ r \in Range(started))
        /\ r \in discarded => (r \in Range(finished) /\ posted[r] = 0)

C9_DropStep ==
    /\ discarded' # discarded => wpc' = "recv"
    /\ \A r \in dropped' \ dropped :
          /\ r \in Range(QueueIds(queue)) => queue' = queue
          /\ r \in engineBusy => (cur' = cur /\ wpc' = wpc /\ engineBusy' = engineBusy)

C9_NoCancellation ==
    /\ [](C9_DropInv)
    /\ [][C9_DropStep]_vars
    /\ \A r \in ReqIds :
          (r \in dropped /\ r \in Range(accepted) /\ r \notin Range(finished))
              ~> (r \in Range(finished) /\ r \in discarded)

C9_Witness ==
    \E i \in DOMAIN started :
        /\ started[i] \in discarded
        /\ started[i] \in dropped
        /\ i < Len(started)

C11_PanicInv ==
    /\ \A r \in panicked :
          /\ created[r].sql \in ExoticTexts
          /\ returned[r] = 0
          /\ outcome[r] = NoOutcome
          /\ r \in dropped
          /\ posted[r] = 1
          /\ spc[created[r].owner] = "closed"
    /\ \A r \in Created :
          created[r].sql \in ExoticTexts /\ returned[r] = 1
              => outcome[r].kind = "ApiError" /\ outcome[r].src \in {"send", "recv"}

C11_PanicStep ==
    panicked' # panicked =>
        /\ \E r \in Created :
              /\ panicked' = panicked \cup {r}
              /\ r \notin panicked
              /\ \A s \in Sessions : s # created[r].owner => spc'[s] = spc[s]
        /\ wpc' = wpc
        /\ listener' = listener
        /\ UNCHANGED <<chanVars, cur, engineBusy, returned, outcome>>

EncodedBefore(ps, i) == \A j \in 1..(i - 1) : EncodePayload(ps[j]).st = "ok"

\* ---- C12: for an engine result of n payloads do_query returns exactly n
\* responses, the i-th being the encoding of the i-th payload; if the engine
\* reports an error, or the encoding of a payload returns an error, do_query
\* returns a single error and no responses at all.
C12_PayloadToResponse ==
    encOut # NoEncoded =>
        LET ps == encIn.payloads IN
        /\ encIn.st = "Err" => encOut = [st |-> "err", resps |-> <<>>]
        /\ (encIn.st = "Ok" /\ EncodedBefore(ps, Len(ps) + 1)) =>
              /\ encOut.st = "ok"
              /\ Len(encOut.resps) = Len(ps)
              /\ \A i \in 1..Len(ps) : encOut.resps[i] = EncodePayload(ps[i]).resp
        /\ \A i \in 1..Len(ps) :
              (encIn.st = "Ok" /\ EncodedBefore(ps, i) /\ EncodePayload(ps[i]).st = "err")
                  => encOut = [st |-> "err", resps |-> <<>>]
        /\ encOut.st \in {"ok", "err", "panic"}
        /\ encOut.st # "ok" => encOut.resps = <<>>

\* three payloads of different kinds were encoded into three responses
C12_Witness ==
    /\ encOut.st = "ok"
    /\ Len(encOut.resps) = MaxPayloads
    /\ encOut.resps[1].rk = "Execution"
    /\ encOut.resps[2].rk = "Query"
    /\ encOut.resps[1] # encOut.resps[MaxPayloads]

\* the Select payloads of the result being encoded, by position
SelectsOf(res) == {i \in 1..Len(res.payloads) : res.payloads[i].pk = "Select"}

\* ---- C13: in the row-set response made from a Select payload every row has
\* exactly as many encoded cells as the response has column descriptors, and
\* there is one descriptor per label.
C13_CellsMatchColumns ==
    encOut.st = "ok" =>
        \A i \in SelectsOf(encIn) :
            LET p == encIn.payloads[i]
                resp == encOut.resps[i]
            IN /\ resp.rk = "Query"
               /\ Len(resp.fields) = Len(p.labels)
               /\ Len(resp.data) = Len(p.rows)
               /\ \A k \in 1..Len(resp.data) :
                     /\ Len(resp.data[k]) = Len(p.rows[k])
                     /\ Len(resp.data[k]) = Len(resp.fields)

\* a Select of MaxRows rows and MaxCols columns was encoded
C13_Witness ==
    /\ encOut.st = "ok"
    /\ \E i \in SelectsOf(encIn) :
          /\ Len(encOut.resps[i].fields) = MaxCols
          /\ Len(encOut.resps[i].data) = MaxRows
          /\ \A k \in 1..MaxRows : Len(encOut.resps[i].data[k]) = MaxCols

\* the tag the protocol description gives each statement kind
C14_TagTable ==
    [Insert |-> "Insert", Update |-> "Update", Delete |-> "Delete",
     Create |-> "Create", AlterTable |-> "Alter Table", DropTable |-> "Drop Table",
     CreateIndex |-> "Create Index", DropIndex |-> "Drop Index"]

\* ---- C14: a Mutation payload with affected-row count k is encoded as an
\* execution acknowledgement with tag "Insert", "Update" or "Delete" and
\* count exactly k; a Schema Change payload as an acknowledgement with tag
\* "Create", "Alter Table", "Drop Table", "Create Index" or "Drop Index" and
\* no count; neither kind ever produces a row-set response.
C14_TagCorrectness ==
    encOut.st = "ok" =>
        \A i \in 1..Len(encIn.payloads) :
            LET p == encIn.payloads[i]
                resp == encOut.resps[i]
            IN /\ p.pk \in {"Insert", "Update", "Delete"} =>
                     /\ resp.rk = "Execution"
                     /\ resp.tag = C14_TagTable[p.pk]
                     /\ resp.count = <<p.n>>
               /\ p.pk \in {"Create", "AlterTable", "DropTable", "CreateIndex", "DropIndex"} =>
                     /\ resp.rk = "Execution"
                     /\ resp.tag = C14_TagTable[p.pk]
                     /\ resp.count = <<>>
               /\ resp.rk = "Query" => p.pk = "Select"

\* a Delete of five rows was acknowledged
C14_Witness ==
    /\ encOut.st = "ok"
    /\ \E i \in 1..Len(encIn.payloads) :
          /\ encIn.payloads[i] = Mutation("Delete", 5)
          /\ encOut.resps[i].tag = "Delete"
          /\ encOut.resps[i].count = <<5>>

\* the wire type the type table gives each value kind
C15_TypeTable ==
    [Bool |-> "BOOL", I8 |-> "CHAR", I16 |-> "INT2", I32 |-> "INT4", I64 |-> "INT8",
     U8 |-> "CHAR", F64 |-> "FLOAT8", Str |-> "VARCHAR", Bytea |-> "BYTEA",
     Date |-> "DATE", Time |-> "TIME", Timestamp |-> "TIMESTAMP"]

\* ---- C15: a Select payload is encoded with one column descriptor per label
\* in label order (unknown type, text format); rows keep their order and cells
\* their position in the row; each cell carries the wire type the type table
\* fixes for its value kind, whatever its column, in text format.
C15_TypeTableFollowed ==
    encOut.st = "ok" =>
        \A i \in SelectsOf(encIn) :
            LET p == encIn.payloads[i]
                resp == encOut.resps[i]
            IN /\ DOMAIN resp.fields = DOMAIN p.labels
               /\ \A j \in DOMAIN p.labels :
                     resp.fields[j] = [name |-> p.labels[j], ty |-> "UNKNOWN", fmt |-> "Text"]
               /\ DOMAIN resp.data = DOMAIN p.rows
               /\ \A k \in DOMAIN p.rows :
                     /\ DOMAIN resp.data[k] = DOMAIN p.rows[k]
                     /\ \A j \in DOMAIN p.rows[k] :
                           LET c == p.rows[k][j] IN
                           /\ c.kind \in DOMAIN C15_TypeTable
                           /\ resp.data[k][j].ty = C15_TypeTable[c.kind]
                           /\ resp.data[k][j].fmt = "Text"
                           /\ resp.data[k][j].text = ToSqlText(C15_TypeTable[c.kind], WireValue(c))

\* a row holding an unsigned byte and a 32-bit integer side by side, in a
\* select whose rows differ
C15_Witness ==
    /\ encOut.st = "ok"
    /\ \E i \in SelectsOf(encIn) :
          LET p == encIn.payloads[i]
              resp == encOut.resps[i]
          IN /\ Len(p.rows) = MaxRows
             /\ Len(p.labels) = MaxCols
             /\ p.rows[1][1].kind = "U8"
             /\ p.rows[1][MaxCols].kind = "I32"
             /\ p.rows[1] # p.rows[MaxRows]
             /\ resp.data[1][1].ty = "CHAR"
             /\ resp.data[1][MaxCols].ty = "INT4"

\* ---- C16: type round-trip: for each supported value kind and every value
\* of that kind, the cell the encoder is handed decodes to a value equal to
\* the original; in particular for every unsigned byte v in 0..255, encoded
\* after being read as a signed 8-bit integer, the decoded value equals v.
\* The code does not have this property: see the unsigned bytes above 127.
C16_TypeRoundTrip ==
    encOut.st = "ok" =>
        \A i \in SelectsOf(encIn) :
            \A k \in DOMAIN encIn.payloads[i].rows :
                \A j \in DOMAIN encIn.payloads[i].rows[k] :
                    FromSqlText(encOut.resps[i].data[k][j]) = encIn.payloads[i].rows[k][j].v

C17_AcceptInv ==
    /\ listener \in {"running", "failed"}
    /\ (listener = "running" /\ \E s \in Sessions : spc[s] = "absent")
          => ENABLED (\E s \in Sessions : Accept(s))

C17_AcceptStep ==
    /\ listener = "running"
    /\ listener' # listener =>
          /\ listener' = "failed"
          /\ UNCHANGED <<spc, sreq, created, chanVars, workerVars, ost, oval, accepted,
                         returned, outcome, dropped, waited, panicked>>
    /\ \A s \in Sessions :
          (spc[s] = "absent" /\ spc'[s] # "absent") =>
              /\ spc'[s] = "idle"
              /\ \A t \in Sessions : t # s => spc'[t] = spc[t]
              /\ UNCHANGED <<sreq, created, chanVars, workerVars, ost, oval, listener>>

\* ---- C17: each accepted connection gets exactly one new session task on
\* the one bridge, and the accept loop goes on without waiting for it; the
\* loop never exits on its own, and a single accept failure ends the acceptor
\* and the process: after it no connection is accepted and no session served.
C17_Acceptor == [](C17_AcceptInv) /\ [][C17_AcceptStep]_vars

\* an accept failed while one session waited for its result, another was
\* connected and a connection was still to come
C17_Witness ==
    /\ listener = "failed"
    /\ \E s, t, u \in Sessions :
          /\ spc[s] = "awaiting"
          /\ t # s /\ spc[t] \notin {"absent", "closed"}
          /\ spc[u] = "absent"

\* the requests the worker took from the queue whose outcome it has neither
\* posted nor discarded
C18_Pending == {r \in Range(started) : posted[r] = 0 /\ r \notin discarded}

C18_SerialInv ==
    /\ Cardinality(C18_Pending) <= 1
    /\ IsPrefix(started, accepted)
    /\ IsPrefix(finished, started)
    /\ \A r \in Range(finished) : (posted[r] = 1) # (r \in discarded)
    /\ \A r \in ReqIds :
          /\ posted[r] <= 1
          /\ (posted[r] = 1 \/ r \in discarded) => r \in Range(finished)
    /\ wpc = "recv" => C18_Pending = {}

C18_SerialStep ==
    /\ started' # started => C18_Pending = {}
    /\ \A r \in ReqIds :
          (posted'[r] # posted[r] \/ (r \in discarded' /\ r \notin discarded)) =>
              /\ C18_Pending = {r}
              /\ finished' = Append(finished, r)

\* ---- C18: the worker takes the next request from the queue only after it
\* has posted, or failed to post and discarded, the outcome of the previous
\* one; outcomes are posted in exactly the order the requests were accepted,
\* and at any instant at most one accepted request has no posted outcome.
C18_OneAtATime == [](C18_SerialInv) /\ [][C18_SerialStep]_vars

\* one outcome was posted and one discarded, the third request is executing
C18_Witness ==
    /\ Len(finished) = 2
    /\ \E r, q \in Range(finished) : posted[r] = 1 /\ q \in discarded
    /\ wpc = "exec"
    /\ Cardinality(C18_Pending) = 1

C19_OpenInv ==
    /\ wpc # "exited"
    /\ closed => wpc = "dead"
    /\ \A r \in Created : outcome[r].src = "send" => wpc = "dead"

C19_OpenStep == closed' # closed => (wpc = "exec" /\ wpc' = "dead")

\* ---- C19: the request channel is never closed by session activity: main
\* keeps a handle to the sender for the whole run, so whatever sessions
\* connect, query, fail and disconnect, all of them having closed included,
\* the worker's recv never sees a closed channel and the worker does not
\* leave its loop; a session connecting later can still submit.
C19_ChannelStaysOpen == [](C19_OpenInv) /\ [][C19_OpenStep]_vars

\* every session that connected is gone, one of them after a served query and
\* one by a panic, a connection is still to come, and the worker waits in recv
\* on the open channel
C19_Witness ==
    /\ \A s \in Sessions : spc[s] \in {"absent", "closed"}
    /\ Cardinality({s \in Sessions : spc[s] = "closed"}) >= 2
    /\ \E s \in Sessions : spc[s] = "absent"
    /\ panicked # {}
    /\ \E r \in Created : outcome[r].kind = "Ok"
    /\ wpc = "recv"
    /\ ~closed
    /\ queue = <<>>

C20_IsolationInv ==
    /\ wpc \in {"recv", "exec"}
    /\ ~closed
    /\ \A r \in panicked : posted[r] = 1 /\ r \in Range(finished)
    /\ \A r \in Created :
          returned[r] = 1 => (outcome[r].kind = "Ok" /\ posted[r] = 1)

\* a step in which a session's task ends, by a disconnect or by a panic
C20_Abort == \E s \in Sessions : spc[s] # "closed" /\ spc'[s] = "closed"

C20_IsolationStep ==
    C20_Abort =>
        /\ wpc' = wpc
        /\ UNCHANGED <<cur, engineBusy, started, finished, posted, discarded, queue,
                       closed, accepted, returned, outcome>>
        /\ \A t \in Sessions :
              (spc'[t] # spc[t] /\ spc'[t] # "closed") =>
                  (spc[t] = "sending" /\ spc'[t] = "granted")

\* ---- C20: session fault isolation: the result is encoded in the session's
\* task after the worker has posted it, so a session that aborts at any
\* point, before or during submit, while queued, while its request executes
\* or while encoding an unsupported value, leaves the worker running and the
\* engine usable, and the requests of the other sessions are still accepted,
\* executed and answered.
C20_SessionFaultIsolation ==
    /\ [](C20_IsolationInv)
    /\ [][C20_IsolationStep]_vars
    /\ \A r \in ReqIds : (Len(created) >= r) ~> (returned[r] = 1 \/ r \in dropped)

\* one session panicked while encoding, another went away before its result
\* could be delivered, and the request executed last was answered
C20_Witness ==
    /\ panicked # {}
    /\ discarded # {}
    /\ Len(finished) = MaxReq
    /\ returned[finished[MaxReq]] = 1
    /\ outcome[finished[MaxReq]].kind = "Ok"

====
